---------------------------- MODULE Spec2Model ----------------------------
(***************************************************************************)
(* Model of src/app.py (Report Analyzer API): the paginated PDF writer     *)
(* FinalPerfectPDF, the right-to-left writer write_arabic_multiline, the   *)
(* marker based section splitter of analyze_report with its record and     *)
(* bullet sub-parsers, and the request handling around them.               *)
(*                                                                         *)
(* Lengths are kept exact: every vertical position is an integer number of *)
(* 1/Unit millimetres, Unit = 190 * 8, which is a common denominator of    *)
(* the divisions by 190 and by 80 of add_test_result.                      *)
(***************************************************************************)
EXTENDS Integers, Sequences, FiniteSets, TLC

VARIABLES
    \* ---- FinalPerfectPDF (the cursor of one document) ----
    cursor,      \* [y |-> get_y() in 1/Unit mm, page |-> page_no()]
    ytrace,      \* the values get_y() took during the last draw operation
    lastop,      \* the last draw operation ("none" after the constructor)
    nops,        \* number of draw operations performed
    \* ---- write_arabic_multiline ----
    wtext,       \* the text argument (0 = space, n > 0 = Arabic letter n)
    wavail,      \* width available to multi_cell, in letters
    wlines,      \* the lines multi_cell drew, top line first
    wpc,         \* "ready" | "done"
    \* ---- analyze_report, sections 1..5 and persist, of one request ----
    rsp,         \* response.text, as a sequence of tokens
    pc,          \* the next step of the handler: "section_1", ..., "persist", "done"
    sec,         \* per section: [ok |-> no exception, raw |-> slice, val |-> value]
    drawn,       \* the draw calls made on the pdf so far
    persisted,   \* pdf.output has run
    \* ---- section 1 record parsing ----
    rtext,       \* results_section
    rrecs,       \* the records handed to add_test_result, in order
    rpc,         \* "ready" | "done" | "failed"
    \* ---- section 2 bullet parsing ----
    blines,      \* rec_section, the text whose lines are scanned
    bimprove,    \* to_improve
    bmaintain,   \* to_maintain
    bpc,         \* "ready" | "done"
    \* ---- concurrent requests ----
    req,         \* per request: its position and locals
    files,       \* the file system: path -> request that wrote it last
    modelCalls   \* the requests for which generate_content was called

pdfVars   == <<cursor, ytrace, lastop, nops>>
wrapVars  == <<wtext, wavail, wlines, wpc>>
flowVars  == <<rsp, pc, sec, drawn, persisted>>
recVars   == <<rtext, rrecs, rpc>>
bulVars   == <<blines, bimprove, bmaintain, bpc>>
reqVars   == <<req, files, modelCalls>>
vars == <<pdfVars, wrapVars, flowVars, recVars, bulVars, reqVars>>

-----------------------------------------------------------------------------
(* Generic helpers *)

Max(a, b) == IF a >= b THEN a ELSE b

CeilDiv(a, b) == (a + b - 1) \div b

RECURSIVE Reverse(_)
Reverse(s) == IF s = <<>> THEN <<>> ELSE Append(Reverse(Tail(s)), Head(s))

SeqsUpTo(S, n) == UNION {[1..k -> S] : k \in 0..n}

-----------------------------------------------------------------------------
(* FinalPerfectPDF *)

Unit == 190 * 8
mm(n) == n * Unit

TopMargin == 10
PageLimit == 260
AvailCard == 186
AvailFull == 188

MaxOps == 2
MaxWK == 2
WStep == 480
LenStep == 120
MaxCharWidth == 4
MaxItems == 2

\* string widths in mm, and comment lengths in characters
WidthSet == {k * WStep : k \in 0..MaxWK}
LenSet == {k * LenStep : k \in 0..MaxWK}

\* multi_cell: the number of lines a text of string width w takes in a cell
\* `avail` wide; an empty text still takes one line.
LinesOf(w, avail) == Max(1, CeilDiv(w, avail))

NewPage(c) == [y |-> mm(TopMargin), page |-> c.page + 1]

CheckSpace(c, needed) ==
    IF c.y + needed > mm(PageLimit) THEN NewPage(c) ELSE c

\* add_section: the positions of the cursor after check_space, ln(2), cell.
AddSectionTrace(c) ==
    LET c1 == CheckSpace(c, mm(20))
    IN  <<c1.y, c1.y + mm(2), c1.y + mm(2) + mm(10)>>

\* add_test_result; f = [w1, w2, d2, w3, d3, clen, cw]: the string widths of
\* the measured texts (w), of the drawn texts (d, after clean_superscripts,
\* which never widens a text), the length of the comment and its drawn
\* width (no glyph of the font is wider than MaxCharWidth mm at 12 pt).
TotalHeight(f) ==
    LET h1 == 64 * f.w1 + mm(8)
        h2 == 56 * f.w2 + mm(7)
        h3 == 56 * f.w3 + mm(7)
        h4 == 133 * f.clen + mm(7)
    IN  h1 + h2 + h3 + h4 + mm(6)

FinalSetY(y_start, f) == y_start + TotalHeight(f) + mm(2)

AddTestResultTrace(c, f) ==
    LET c1 == CheckSpace(c, mm(40))
        y_start == c1.y
        y0 == y_start + mm(2)
        y1 == y0 + mm(8) * LinesOf(f.w1, AvailCard)
        y2 == y1 + mm(7) * LinesOf(f.d2, AvailCard)
        y3 == y2 + mm(7) * LinesOf(f.d3, AvailCard)
        y4 == y3 + mm(7) * LinesOf(f.cw, AvailCard)
    IN  <<y_start, y0, y1, y2, y3, y4, FinalSetY(y_start, f)>>

\* add_bullets; items = the drawn width of each item
RECURSIVE ItemTrace(_, _)
ItemTrace(yy, items) ==
    IF items = <<>> THEN <<>>
    ELSE LET y1 == yy + mm(8) * LinesOf(Head(items), AvailFull)
         IN  <<y1>> \o ItemTrace(y1, Tail(items))

AddBulletsTrace(c, items) ==
    LET estimated_height == mm(10) + Len(items) * mm(8) + mm(4)
        c1 == IF c.y + estimated_height > mm(PageLimit) THEN NewPage(c) ELSE c
        yt == c1.y + mm(10)
        it == ItemTrace(yt, items)
        ye == IF it = <<>> THEN yt ELSE it[Len(it)]
    IN  <<c1.y, yt>> \o it \o <<ye + mm(2)>>

\* add_paragraph; plines = the drawn width of each line of the text
AddParagraphTrace(c, plines) ==
    LET c1 == CheckSpace(c, mm(10))
    IN  <<c1.y>> \o ItemTrace(c1.y, plines)

PageAfter(c, needed) == CheckSpace(c, needed).page

Fields ==
    {f \in [w1 : WidthSet, w2 : WidthSet, d2 : WidthSet, w3 : WidthSet,
            d3 : WidthSet, clen : LenSet, cw : WidthSet] :
        /\ f.d2 <= f.w2
        /\ f.d3 <= f.w3
        /\ f.cw <= MaxCharWidth * f.clen}

ItemLists == SeqsUpTo(WidthSet, MaxItems)

Drew(op, trace, page) ==
    /\ nops < MaxOps
    /\ cursor' = [y |-> trace[Len(trace)], page |-> page]
    /\ ytrace' = trace
    /\ lastop' = op
    /\ nops' = nops + 1
    /\ UNCHANGED <<wrapVars, flowVars, recVars, bulVars, reqVars>>

add_section ==
    Drew("add_section", AddSectionTrace(cursor), PageAfter(cursor, mm(20)))

add_test_result ==
    \E f \in Fields :
        Drew("add_test_result", AddTestResultTrace(cursor, f),
             PageAfter(cursor, mm(40)))

add_bullets ==
    \E items \in ItemLists :
        Drew("add_bullets", AddBulletsTrace(cursor, items),
             PageAfter(cursor, mm(10) + Len(items) * mm(8) + mm(4)))

add_paragraph ==
    \E plines \in ItemLists \ {<<>>} :
        Drew("add_paragraph", AddParagraphTrace(cursor, plines),
             PageAfter(cursor, mm(10)))

PdfInit ==
    /\ cursor = [y |-> mm(TopMargin), page |-> 1]
    /\ ytrace = <<mm(TopMargin)>>
    /\ lastop = "none"
    /\ nops = 0

-----------------------------------------------------------------------------
(* write_arabic_multiline.  A text is a sequence of characters: 0 is a     *)
(* space, n > 0 is the Arabic letter n.  A glyph is [ch, form]; "." and    *)
(* the bullet are the glyphs with ch = -1 and ch = -2.                     *)

MaxText == 4
MaxLetter == 2
MaxAvail == 3

SPACE == 0
DotGlyph == [ch |-> 0 - 1, form |-> "isol"]
BulletGlyph == [ch |-> 0 - 2, form |-> "isol"]
SpaceGlyph == [ch |-> SPACE, form |-> "isol"]

RECURSIVE LStrip(_, _)
LStrip(s, ws) ==
    IF s # <<>> /\ Head(s) \in ws THEN LStrip(Tail(s), ws) ELSE s

\* str.strip(): leading and trailing characters of ws removed
StripOf(s, ws) == Reverse(LStrip(Reverse(LStrip(s, ws)), ws))

\* arabic_reshaper.reshape: each letter gets the contextual form its
\* neighbours in the word give it; the order of the characters is kept.
FormAt(t, i) ==
    LET prev == i > 1 /\ t[i - 1] # SPACE
        next == i < Len(t) /\ t[i + 1] # SPACE
    IN  IF prev /\ next THEN "medi"
        ELSE IF prev THEN "fina"
        ELSE IF next THEN "init"
        ELSE "isol"

reshape(t) ==
    [i \in 1..Len(t) |->
        IF t[i] = SPACE THEN SpaceGlyph ELSE [ch |-> t[i], form |-> FormAt(t, i)]]

\* bidi get_display of a right-to-left paragraph: logical order to visual
\* order, the leftmost glyph first.
get_display(g) == Reverse(g)

\* multi_cell line breaking of a visual string d in a cell `avail` glyphs
\* wide (every glyph one unit wide): the longest prefix that fits, cut at
\* its last space, or inside the word when it holds no space.
LastSpace(d, n) ==
    LET S == {i \in 1..n : d[i].ch = SPACE}
    IN  IF S = {} THEN 0 ELSE CHOOSE i \in S : \A j \in S : j <= i

RECURSIVE BreakLines(_, _)
BreakLines(d, avail) ==
    IF Len(d) <= avail THEN <<d>>
    ELSE IF d[avail + 1].ch = SPACE
         THEN <<SubSeq(d, 1, avail)>>
                  \o BreakLines(SubSeq(d, avail + 2, Len(d)), avail)
    ELSE LET p == LastSpace(d, avail)
         IN  IF p > 0
             THEN <<SubSeq(d, 1, p - 1)>>
                      \o BreakLines(SubSeq(d, p + 1, Len(d)), avail)
             ELSE <<SubSeq(d, 1, avail)>>
                      \o BreakLines(SubSeq(d, avail + 1, Len(d)), avail)

\* The lines write_arabic_multiline draws, top line first: none for a text
\* that is empty after strip().
ArabicLines(t, avail, bullet) ==
    LET text == StripOf(t, {SPACE})
        display_text == get_display(reshape(text))
        shown == IF bullet
                 THEN <<DotGlyph>> \o display_text \o <<SpaceGlyph, BulletGlyph>>
                 ELSE display_text
    IN  IF text = <<>> THEN <<>> ELSE BreakLines(shown, avail)

write_arabic_multiline ==
    /\ wpc = "ready"
    /\ \E bullet \in BOOLEAN :
        wlines' = [bullet |-> bullet, lines |-> ArabicLines(wtext, wavail, bullet)]
    /\ wpc' = "done"
    /\ UNCHANGED <<wtext, wavail, pdfVars, flowVars, recVars, bulVars, reqVars>>

WrapInit ==
    /\ wtext \in SeqsUpTo(0..MaxLetter, MaxText)
    /\ wavail \in 2..MaxAvail
    /\ wlines = [bullet |-> FALSE, lines |-> <<>>]
    /\ wpc = "ready"

\* The words of a character sequence: str.split()
RECURSIVE WordsOf(_)
WordsOf(t) ==
    LET s == LStrip(t, {SPACE})
        n == IF \E i \in 1..Len(s) : s[i] = SPACE
             THEN (CHOOSE i \in 1..Len(s) :
                        s[i] = SPACE /\ \A j \in 1..(i - 1) : s[j] # SPACE) - 1
             ELSE Len(s)
    IN  IF s = <<>> THEN <<>>
        ELSE <<SubSeq(s, 1, n)>> \o WordsOf(SubSeq(s, n + 1, Len(s)))

\* What a reader of right-to-left text reads on one drawn line: the letters
\* from the right end to the left end, punctuation glyphs left out.
RECURSIVE LettersOf(_)
LettersOf(g) ==
    IF g = <<>> THEN <<>>
    ELSE IF Head(g).ch < 0 THEN LettersOf(Tail(g))
    ELSE <<Head(g).ch>> \o LettersOf(Tail(g))

ReadLine(line) == WordsOf(LettersOf(Reverse(line)))

RECURSIVE ReadLines(_)
ReadLines(ls) ==
    IF ls = <<>> THEN <<>> ELSE ReadLine(Head(ls)) \o ReadLines(Tail(ls))

-----------------------------------------------------------------------------
(* Texts of the splitter.  The response is a sequence of tokens; a token   *)
(* is one of the literals the code searches for, or a piece of other text. *)

M2 == "**2. Recommendations**"
M3 == "**3. Summary**"
M4 == "**4. Final Score**"
M5 == "**5. Medical Disclaimer**"
IND == "Indicator:"
RES == "Your Result:"
NR == "Normal Range:"
COM == "Comment:"
MET == "Metric:"
IMP == "To Improve"
MNT == "To Maintain"
STAR == "*"
QUO == "\""
NL == "\n"
SP == " "
TXT == "x"

Markers == <<M2, M3, M4, M5>>
Whitespace == {NL, SP}
\* the tokens that hold a colon
ColonTokens == {IND, RES, NR, COM, MET}

Contains(s, tok) == \E i \in 1..Len(s) : s[i] = tok

CountOf(s, tok) == Cardinality({i \in 1..Len(s) : s[i] = tok})

FirstIndex(s, tok) == CHOOSE i \in 1..Len(s) : s[i] = tok /\ \A j \in 1..(i - 1) : s[j] # tok

\* str.split(tok): the pieces between the occurrences of tok, at least one
RECURSIVE SplitOn(_, _)
SplitOn(s, tok) ==
    IF ~Contains(s, tok) THEN <<s>>
    ELSE LET i == FirstIndex(s, tok)
         IN  <<SubSeq(s, 1, i - 1)>> \o SplitOn(SubSeq(s, i + 1, Len(s)), tok)

\* str.splitlines(): no line for the empty text, none after a final newline
SplitLines(s) ==
    LET parts == SplitOn(s, NL)
    IN  IF s = <<>> THEN <<>>
        ELSE IF parts[Len(parts)] = <<>> THEN SubSeq(parts, 1, Len(parts) - 1)
        ELSE parts

Strip(s) == StripOf(s, Whitespace)

\* str.replace(tok, "")
RECURSIVE Remove(_, _)
Remove(s, tok) ==
    IF s = <<>> THEN <<>>
    ELSE IF Head(s) = tok THEN Remove(Tail(s), tok)
    ELSE <<Head(s)>> \o Remove(Tail(s), tok)

\* l.split(":", 1)[1].strip(), for a line that holds a colon
AfterFirstColon(l) ==
    LET i == CHOOSE k \in 1..Len(l) :
                 l[k] \in ColonTokens /\ \A j \in 1..(k - 1) : l[j] \notin ColonTokens
    IN  Strip(SubSeq(l, i + 1, Len(l)))

\* next((l.split(":", 1)[1].strip() for l in lines if label in l), "")
FieldOf(lines, label) ==
    LET S == {i \in 1..Len(lines) : Contains(lines[i], label)}
    IN  IF S = {} THEN <<>>
        ELSE AfterFirstColon(lines[CHOOSE i \in S : \A j \in S : i <= j])

\* The body of the loop over tests: the record of one chunk.  lines[0]
\* raises IndexError when the chunk has no line.
ChunkLines(test) == SplitLines(Strip(test))

RecordOf(test) ==
    LET lines == ChunkLines(test)
    IN  [indicator |-> Strip(lines[1]),
         result    |-> FieldOf(lines, RES),
         normal    |-> FieldOf(lines, NR),
         comment   |-> FieldOf(lines, COM)]

\* The loop of section 1 over the chunks: the records drawn, and whether the
\* loop ran to its end (ok) or was left by the exception of an empty chunk.
RECURSIVE TestsLoop(_)
TestsLoop(tests) ==
    IF tests = <<>> THEN [recs |-> <<>>, ok |-> TRUE]
    ELSE IF ChunkLines(Head(tests)) = <<>> THEN [recs |-> <<>>, ok |-> FALSE]
    ELSE LET rest == TestsLoop(Tail(tests))
         IN  [recs |-> <<RecordOf(Head(tests))>> \o rest.recs, ok |-> rest.ok]

ParseTests(results_section) == TestsLoop(Tail(SplitOn(results_section, IND)))

\* BulletStep without the test `current is not None`
BulletStepNoneUnchecked(st, rawline) ==
    LET line == Strip(rawline)
    IN  IF Contains(line, IMP) THEN [st EXCEPT !.cur = "to_improve"]
        ELSE IF Contains(line, MNT) THEN [st EXCEPT !.cur = "to_maintain"]
        ELSE IF line # <<>> /\ Head(line) = STAR
             THEN IF st.cur = "to_improve"
                  THEN [st EXCEPT !.imp = Append(@, Strip(Tail(line)))]
                  ELSE [st EXCEPT !.mnt = Append(@, Strip(Tail(line)))]
        ELSE st

\* The loop of section 2 over the lines, st = [imp, mnt, cur]
BulletStep(st, rawline) ==
    LET line == Strip(rawline)
    IN  IF Contains(line, IMP) THEN [st EXCEPT !.cur = "to_improve"]
        ELSE IF Contains(line, MNT) THEN [st EXCEPT !.cur = "to_maintain"]
        ELSE IF line # <<>> /\ Head(line) = STAR /\ st.cur # "None"
             THEN IF st.cur = "to_improve"
                  THEN [st EXCEPT !.imp = Append(@, Strip(Tail(line)))]
                  ELSE [st EXCEPT !.mnt = Append(@, Strip(Tail(line)))]
        ELSE st

RECURSIVE BulletLoop(_, _)
BulletLoop(st, lines) ==
    IF lines = <<>> THEN st
    ELSE BulletLoop(BulletStep(st, Head(lines)), Tail(lines))

ParseBullets(rec_section) ==
    BulletLoop([imp |-> <<>>, mnt |-> <<>>, cur |-> "None"], SplitLines(rec_section))

\* The slices of the five sections.  x.split(m)[1] raises IndexError when m
\* is not in x: HasPiece2 is the condition under which it does not.
HasPiece2(s, m) == Contains(s, m)

\* Slice3 without the cut at the next marker
Slice3Uncut(r) == SplitOn(r, M3)[2]

Slice1(r) == SplitOn(r, M2)[1]
Slice2(r) == SplitOn(SplitOn(r, M2)[2], M3)[1]
Slice3(r) == SplitOn(SplitOn(r, M3)[2], M4)[1]
Slice4(r) == SplitOn(SplitOn(r, M4)[2], M5)[1]
Slice5(r) == SplitOn(r, M5)[2]

SliceOk(r, i) ==
    CASE i = 1 -> TRUE
      [] i = 2 -> HasPiece2(r, M2)
      [] i = 3 -> HasPiece2(r, M3)
      [] i = 4 -> HasPiece2(r, M4)
      [] i = 5 -> HasPiece2(r, M5)

Slice(r, i) ==
    CASE i = 1 -> Slice1(r)
      [] i = 2 -> Slice2(r)
      [] i = 3 -> Slice3(r)
      [] i = 4 -> Slice4(r)
      [] i = 5 -> Slice5(r)

\* The value of the section variable (results_section, rec_section,
\* summary, score_text, disclaimer) made of the slice
Trimmed(raw, i) ==
    CASE i \in {1, 2} -> raw
      [] i = 3 -> Strip(raw)
      [] i = 4 -> Remove(Strip(raw), MET)
      [] i = 5 -> StripOf(Strip(raw), {QUO})

-----------------------------------------------------------------------------
(* analyze_report: the five section blocks and the persist step            *)

MaxRsp == 5

FlowTokens == {M2, M3, M4, M5, IND, TXT, SP, MET, QUO}

Titles == <<"1. Analysis of Your Results", "2. Recommendations", "3. Summary",
            "4. Final Score", "5. Medical Disclaimer">>

Heading(i) == [sec |-> i, what |-> "add_section", arg |-> Titles[i]]
Card(rec) == [sec |-> 1, what |-> "add_test_result", arg |-> rec]
Bullets(title, items) ==
    [sec |-> 2, what |-> "add_bullets", arg |-> <<title, items>>]
Paragraph(i, text) == [sec |-> i, what |-> "add_paragraph", arg |-> text]

Cards(recs) == [k \in 1..Len(recs) |-> Card(recs[k])]

NoSection == [ok |-> FALSE, raw |-> <<>>, val |-> <<>>]

Extracted(i) ==
    IF SliceOk(rsp, i)
    THEN [ok |-> TRUE, raw |-> Slice(rsp, i), val |-> Trimmed(Slice(rsp, i), i)]
    ELSE NoSection

Steps == <<"section_1", "section_2", "section_3", "section_4", "section_5",
           "persist", "done">>

FlowStep(i, extracted, calls) ==
    /\ pc = Steps[i]
    /\ sec' = [sec EXCEPT ![i] = extracted]
    /\ drawn' = drawn \o calls
    /\ pc' = Steps[i + 1]
    /\ UNCHANGED <<rsp, persisted, pdfVars, wrapVars, recVars, bulVars, reqVars>>

section_1 ==
    LET results_section == Slice1(rsp)
        p == ParseTests(results_section)
    IN  FlowStep(1,
                 [ok |-> p.ok, raw |-> results_section, val |-> results_section],
                 <<Heading(1)>> \o Cards(p.recs))

section_2 ==
    LET e == Extracted(2)
        b == ParseBullets(e.val)
    IN  FlowStep(2, e,
                 IF e.ok
                 THEN <<Heading(2), Bullets("To Improve:", b.imp),
                        Bullets("To Maintain:", b.mnt)>>
                 ELSE <<Heading(2)>>)

ParagraphSection(i) ==
    LET e == Extracted(i)
    IN  FlowStep(i, e,
                 IF e.ok THEN <<Heading(i), Paragraph(i, e.val)>>
                 ELSE <<Heading(i)>>)

section_3 == ParagraphSection(3)

section_4 == ParagraphSection(4)

section_5 == ParagraphSection(5)

persist ==
    /\ pc = "persist"
    /\ persisted' = TRUE
    /\ pc' = "done"
    /\ UNCHANGED <<rsp, sec, drawn, pdfVars, wrapVars, recVars, bulVars, reqVars>>

FlowInit ==
    /\ rsp \in SeqsUpTo(FlowTokens, MaxRsp)
    /\ pc = "section_1"
    /\ sec = [i \in 1..5 |-> NoSection]
    /\ drawn = <<>>
    /\ persisted = FALSE

-----------------------------------------------------------------------------
(* The slicing of the five sections on its own *)

MaxSplit == 5

SplitTokens == {M2, M3, M4, M5, TXT, SP, MET, QUO}

split_sections ==
    /\ pc = "split"
    /\ sec' = [i \in 1..5 |->
                IF i = 1
                THEN [ok |-> ParseTests(Slice1(rsp)).ok, raw |-> Slice1(rsp),
                      val |-> Slice1(rsp)]
                ELSE Extracted(i)]
    /\ pc' = "split_done"
    /\ UNCHANGED <<rsp, drawn, persisted, pdfVars, wrapVars, recVars, bulVars,
                   reqVars>>

SplitInit ==
    /\ rsp \in SeqsUpTo(SplitTokens, MaxSplit)
    /\ pc = "split"
    /\ sec = [i \in 1..5 |-> NoSection]
    /\ drawn = <<>>
    /\ persisted = FALSE

-----------------------------------------------------------------------------
(* Section 1 on its own: the records of a results text *)

MaxResults == 5

RecTokens == {IND, NL, TXT, RES, NR, COM}

parse_records ==
    /\ rpc = "ready"
    /\ LET p == ParseTests(rtext)
       IN  /\ rrecs' = p.recs
           /\ rpc' = IF p.ok THEN "done" ELSE "failed"
    /\ UNCHANGED <<rtext, pdfVars, wrapVars, flowVars, bulVars, reqVars>>

RecInit ==
    /\ rtext \in SeqsUpTo(RecTokens, MaxResults)
    /\ rrecs = <<>>
    /\ rpc = "ready"

-----------------------------------------------------------------------------
(* Section 2 on its own: the bullets of a recommendations text *)

MaxLines == 4

LineShapes ==
    {<<>>, <<IMP>>, <<SP, MNT, TXT>>, <<STAR, TXT>>, <<SP, STAR, SP, TXT, SP>>,
     <<STAR>>, <<STAR, IMP>>, <<MNT, IMP>>, <<TXT, STAR>>}

RECURSIVE JoinLines(_)
JoinLines(ls) ==
    IF ls = <<>> THEN <<>>
    ELSE IF Len(ls) = 1 THEN Head(ls)
    ELSE Head(ls) \o <<NL>> \o JoinLines(Tail(ls))

parse_bullets ==
    /\ bpc = "ready"
    /\ LET b == ParseBullets(blines)
       IN  /\ bimprove' = b.imp
           /\ bmaintain' = b.mnt
    /\ bpc' = "done"
    /\ UNCHANGED <<blines, pdfVars, wrapVars, flowVars, recVars, reqVars>>

BulInit ==
    /\ blines \in {JoinLines(ls) : ls \in SeqsUpTo(LineShapes, MaxLines)}
    /\ bimprove = <<>>
    /\ bmaintain = <<>>
    /\ bpc = "ready"

-----------------------------------------------------------------------------
(* analyze_report as a request handler; several requests run interleaved   *)

NReq == 2

Requests == 1..NReq

Suffixes == {".pdf", ".PNG", ".jpeg", ".txt", ""}

\* os.path.splitext(file.filename)[1].lower()
ExtOf(filename) ==
    CASE filename.suffix = ".PNG" -> ".png"
      [] OTHER -> filename.suffix

AllowedExt == {".pdf", ".jpg", ".jpeg", ".png"}

\* uuid.uuid4(): an identifier no earlier call returned.  Identifiers are
\* interchangeable, so the least unused one stands for any of them.
UUIDs == 1..(2 * NReq)
Issued == {req[r].temp : r \in Requests} \cup {req[r].pdf : r \in Requests}
FreshUuids ==
    LET unused == UUIDs \ Issued
    IN  {u \in unused : \A v \in unused : u <= v}

NoUuid == 0

TempPath(u, ext) == <<"/tmp", u, ext>>
\* PdfFilename with one fixed name for every request
StaticPdfFilename(u) == <<NoUuid, ".pdf">>
PdfFilename(u) == <<u, ".pdf">>
OutputPath(pdf_filename) == <<"static", pdf_filename[1], pdf_filename[2]>>
PdfUrl(pdf_filename) == <<"/static", pdf_filename[1], pdf_filename[2]>>
\* app.mount("/static", StaticFiles(directory="static")): the file a URL serves
ServedPath(url) == <<"static", url[2], url[3]>>

WriteFile(fs, path, r) ==
    {f \in fs : f.path # path} \cup {[path |-> path, by |-> r]}
RemoveFile(fs, path) == {f \in fs : f.path # path}

\* finally: os.remove(temp_file_path) when it is set and exists
Finally(fs, r) ==
    IF req[r].temp # NoUuid
    THEN RemoveFile(fs, TempPath(req[r].temp, ExtOf(req[r].filename)))
    ELSE fs

\* A raise inside the try block: `except Exception` catches it, whatever it
\* is (HTTPException is an Exception), and raises HTTPException(500); the
\* finally block runs; the caller gets the status of the last raise.
Raised(r, status) ==
    /\ req' = [req EXCEPT ![r].pc = "done", ![r].status = 500,
                          ![r].raised = Append(@, status)]
    /\ files' = Finally(files, r)

ReqFrame == UNCHANGED <<pdfVars, wrapVars, flowVars, recVars, bulVars>>

check_extension(r) ==
    /\ req[r].pc = "start"
    /\ IF ExtOf(req[r].filename) \notin AllowedExt
       THEN Raised(r, 400)
       ELSE /\ req' = [req EXCEPT ![r].pc = "temp"]
            /\ files' = files
    /\ UNCHANGED modelCalls
    /\ ReqFrame

write_temp_file(r) ==
    /\ req[r].pc = "temp"
    /\ \E u \in FreshUuids :
        \/ /\ req' = [req EXCEPT ![r].pc = "images", ![r].temp = u]
           /\ files' = WriteFile(files, TempPath(u, ExtOf(req[r].filename)), r)
        \/ \* open() raises: no file is there for the finally block to remove
           /\ req' = [req EXCEPT ![r].pc = "done", ![r].status = 500,
                                 ![r].raised = Append(@, 0), ![r].temp = u]
           /\ files' = files
    /\ UNCHANGED modelCalls
    /\ ReqFrame

load_images(r) ==
    /\ req[r].pc = "images"
    /\ \/ /\ req' = [req EXCEPT ![r].pc = "model"]
          /\ files' = files
       \/ Raised(r, 0)
    /\ UNCHANGED modelCalls
    /\ ReqFrame

generate_content(r) ==
    /\ req[r].pc = "model"
    /\ modelCalls' = modelCalls \cup {r}
    /\ \/ /\ req' = [req EXCEPT ![r].pc = "render"]
          /\ files' = files
       \/ Raised(r, 0)
    /\ ReqFrame

render_sections(r) ==
    /\ req[r].pc = "render"
    /\ req' = [req EXCEPT ![r].pc = "persist"]
    /\ UNCHANGED <<files, modelCalls>>
    /\ ReqFrame

pdf_output(r) ==
    /\ req[r].pc = "persist"
    /\ \E u \in FreshUuids :
        \/ /\ req' = [req EXCEPT ![r].pc = "respond", ![r].pdf = u]
           /\ files' = WriteFile(files, OutputPath(PdfFilename(u)), r)
        \/ /\ req' = [req EXCEPT ![r].pc = "done", ![r].status = 500,
                                 ![r].raised = Append(@, 0), ![r].pdf = u]
           /\ files' = Finally(files, r)
    /\ UNCHANGED modelCalls
    /\ ReqFrame

respond(r) ==
    /\ req[r].pc = "respond"
    /\ req' = [req EXCEPT ![r].pc = "done", ![r].status = 200,
                          ![r].pdf_url = PdfUrl(PdfFilename(req[r].pdf))]
    /\ files' = Finally(files, r)
    /\ UNCHANGED modelCalls
    /\ ReqFrame

ReqInit ==
    /\ req \in [Requests ->
                 [pc : {"start"}, filename : [stem : {"report"}, suffix : Suffixes],
                  temp : {NoUuid}, pdf : {NoUuid}, status : {0},
                  raised : {<<>>}, pdf_url : {<<>>}]]
    /\ files = {}
    /\ modelCalls = {}

-----------------------------------------------------------------------------
(* Specifications.  Each one runs one part of the program; the variables   *)
(* of the other parts keep their initial value.                            *)

PdfIdle ==
    /\ cursor = [y |-> mm(TopMargin), page |-> 1]
    /\ ytrace = <<mm(TopMargin)>>
    /\ lastop = "none"
    /\ nops = 0

WrapIdle ==
    /\ wtext = <<>>
    /\ wavail = MaxAvail
    /\ wlines = [bullet |-> FALSE, lines |-> <<>>]
    /\ wpc = "idle"

FlowIdle ==
    /\ rsp = <<>>
    /\ pc = "idle"
    /\ sec = [i \in 1..5 |-> NoSection]
    /\ drawn = <<>>
    /\ persisted = FALSE

RecIdle ==
    /\ rtext = <<>>
    /\ rrecs = <<>>
    /\ rpc = "idle"

BulIdle ==
    /\ blines = <<>>
    /\ bimprove = <<>>
    /\ bmaintain = <<>>
    /\ bpc = "idle"

ReqIdle ==
    /\ req = <<>>
    /\ files = {}
    /\ modelCalls = {}

PdfNext == add_section \/ add_test_result \/ add_bullets \/ add_paragraph
InitPdf == PdfInit /\ WrapIdle /\ FlowIdle /\ RecIdle /\ BulIdle /\ ReqIdle
SpecPdf == InitPdf /\ [][PdfNext]_vars

WrapNext == write_arabic_multiline
InitWrap == WrapInit /\ PdfIdle /\ FlowIdle /\ RecIdle /\ BulIdle /\ ReqIdle
SpecWrap == InitWrap /\ [][WrapNext]_vars

FlowNext ==
    section_1 \/ section_2 \/ section_3 \/ section_4 \/ section_5 \/ persist
InitFlow == FlowInit /\ PdfIdle /\ WrapIdle /\ RecIdle /\ BulIdle /\ ReqIdle
SpecFlow == InitFlow /\ [][FlowNext]_vars

SplitNext == split_sections
InitSplit == SplitInit /\ PdfIdle /\ WrapIdle /\ RecIdle /\ BulIdle /\ ReqIdle
SpecSplit == InitSplit /\ [][SplitNext]_vars

RecNext == parse_records
InitRec == RecInit /\ PdfIdle /\ WrapIdle /\ FlowIdle /\ BulIdle /\ ReqIdle
SpecRec == InitRec /\ [][RecNext]_vars

BulNext == parse_bullets
InitBul == BulInit /\ PdfIdle /\ WrapIdle /\ FlowIdle /\ RecIdle /\ ReqIdle
SpecBul == InitBul /\ [][BulNext]_vars

ReqNext ==
    \E r \in Requests :
        \/ check_extension(r)
        \/ write_temp_file(r)
        \/ load_images(r)
        \/ generate_content(r)
        \/ render_sections(r)
        \/ pdf_output(r)
        \/ respond(r)
InitReq == ReqInit /\ PdfIdle /\ WrapIdle /\ FlowIdle /\ RecIdle /\ BulIdle
SpecReq == InitReq /\ [][ReqNext]_vars

-----------------------------------------------------------------------------
(* Claims *)

\* C1: after any draw operation (add_section, add_test_result, add_bullets,
\* add_paragraph) the cursor's y position is at most the page bottom
\* threshold of 260 mm.
C1_PageBreakInvariant ==
    lastop # "none" => cursor.y <= mm(PageLimit)

\* C10: within one page the cursor only moves down: after the page break
\* check of a draw operation, no step of the operation sets y to a smaller
\* value than it had, the final set_y of add_test_result included.
C10_CursorMonotone ==
    \A i \in 1..(Len(ytrace) - 1) : ytrace[i] <= ytrace[i + 1]

\* C2: a request whose file extension is not in the allow-list ends with
\* status 400, a response other than the 500 of the other failures, and the
\* generative model is not called for it.
C2_UnsupportedIs400 ==
    \A r \in DOMAIN req :
        (req[r].pc = "done" /\ ExtOf(req[r].filename) \notin AllowedExt)
            => (req[r].status = 400 /\ r \notin modelCalls)

\* C5: every line drawn by write_arabic_multiline is at most the available
\* width wide, and the words read from the lines, top line first, are the
\* words of the text in their order.  Stated for the texts all of whose
\* words fit the width, where the exception for an over-wide word plays no
\* part.
AllWordsFit ==
    \A k \in 1..Len(WordsOf(wtext)) : Len(WordsOf(wtext)[k]) <= wavail

C5_WordWrap ==
    (wpc = "done" /\ ~wlines.bullet /\ AllWordsFit)
        => /\ \A k \in 1..Len(wlines.lines) : Len(wlines.lines[k]) <= wavail
           /\ ReadLines(wlines.lines) = WordsOf(wtext)

\* C6: section 1 renders exactly one record per occurrence of "Indicator:",
\* in order, raising no error, and a record whose chunk holds no
\* "Your Result:", "Normal Range:" or "Comment:" line has the empty string
\* in that field.
ChunksOf(t) == Tail(SplitOn(t, IND))

C6_OneRecordPerIndicator ==
    rpc \in {"done", "failed"}
        => /\ rpc = "done"
           /\ Len(rrecs) = CountOf(rtext, IND)
           /\ \A k \in 1..Len(rrecs) :
                /\ ~Contains(ChunksOf(rtext)[k], RES) => rrecs[k].result = <<>>
                /\ ~Contains(ChunksOf(rtext)[k], NR) => rrecs[k].normal = <<>>
                /\ ~Contains(ChunksOf(rtext)[k], COM) => rrecs[k].comment = <<>>

\* C4: when the extraction of a section fails, nothing of that section is
\* drawn, neither its heading nor a part of its content, and the request
\* still ends with a persisted PDF.
C4_FailedSectionOmitted ==
    pc = "done"
        => /\ persisted
           /\ \A i \in 1..5 :
                ~sec[i].ok => \A k \in 1..Len(drawn) : drawn[k].sec # i

\* C3: for a response that lacks exactly one of the four markers (and holds
\* the other three once each, in order), exactly the section the marker
\* opens and the section it closes fail to extract, and every other section
\* has the content it has with the marker put in.  Marker k of Markers
\* closes section k and opens section k + 1.
InOrderOnce(r, ks) ==
    /\ \A k \in ks : CountOf(r, Markers[k]) = 1
    /\ \A j, k \in ks : j < k => FirstIndex(r, Markers[j]) < FirstIndex(r, Markers[k])

LacksExactly(r, k) ==
    /\ CountOf(r, Markers[k]) = 0
    /\ InOrderOnce(r, (1..4) \ {k})

InsertAt(r, p, tok) == SubSeq(r, 1, p) \o <<tok>> \o SubSeq(r, p + 1, Len(r))

WithMarker(r, k) ==
    {InsertAt(r, p, Markers[k]) : p \in 0..Len(r)} \cap
        {x \in SeqsUpTo(FlowTokens, MaxRsp + 1) : InOrderOnce(x, 1..4)}

C3_PartialFailureIsolation ==
    \A k \in 1..4 :
        (pc = "done" /\ LacksExactly(rsp, k) /\ ~Contains(rsp, IND))
            => /\ \A i \in 1..5 : sec[i].ok <=> i \notin {k, k + 1}
               /\ \A i \in (1..5) \ {k, k + 1} :
                    \A x \in WithMarker(rsp, k) :
                        sec[i].val = Trimmed(Slice(x, i), i)

\* C8 (as stated): for a response that holds the four markers in order, the
\* five sections are contiguous pieces of the response, and joined with the
\* markers between them they give the response back.  Stated for the
\* responses that hold each marker exactly once.
IsPieceOf(x, r) ==
    \E a \in 1..(Len(r) + 1) : \E b \in (a - 1)..Len(r) : x = SubSeq(r, a, b)

Joined(parts) ==
    parts[1] \o <<M2>> \o parts[2] \o <<M3>> \o parts[3] \o <<M4>>
        \o parts[4] \o <<M5>> \o parts[5]

C8_SectionsReconstruct ==
    (pc = "split_done" /\ InOrderOnce(rsp, 1..4))
        => /\ \A i \in 1..5 : sec[i].ok /\ IsPieceOf(sec[i].val, rsp)
           /\ Joined([i \in 1..5 |-> sec[i].val]) = rsp

\* C8 (amended): for a response that holds each of the four markers exactly
\* once, in order, the five slices cut between the markers, before strip(),
\* the removal of "Metric:" and the stripping of quotes, joined with the
\* markers between them give the response back; the section values are
\* those slices trimmed.
C8_SlicesReconstruct ==
    (pc = "split_done" /\ InOrderOnce(rsp, 1..4))
        => /\ \A i \in 1..5 : sec[i].ok
           /\ Joined([i \in 1..5 |-> sec[i].raw]) = rsp
           /\ \A i \in 1..5 : sec[i].val = Trimmed(sec[i].raw, i)

C8_Witness ==
    /\ pc = "split_done"
    /\ InOrderOnce(rsp, 1..4)
    /\ sec[3].raw # <<>>
    /\ sec[3].val # sec[3].raw

\* C7: a line holding "To Improve" makes to_improve the active bucket, else
\* a line holding "To Maintain" makes to_maintain the active bucket, else a
\* line starting with the bullet glyph is appended, glyph stripped, to the
\* bucket active at that point; other lines change nothing, bullets before
\* the first marker line are in neither bucket, and each bucket keeps its
\* bullets in the order of the input.
ScanLines == [i \in 1..Len(SplitLines(blines)) |-> Strip(SplitLines(blines)[i])]

KindOf(l) ==
    IF Contains(l, IMP) THEN "to_improve"
    ELSE IF Contains(l, MNT) THEN "to_maintain"
    ELSE IF l # <<>> /\ Head(l) = STAR THEN "bullet"
    ELSE "other"

MarkersBefore(L, i) ==
    {j \in 1..(i - 1) : KindOf(L[j]) \in {"to_improve", "to_maintain"}}

ActiveAt(L, i) ==
    LET before == MarkersBefore(L, i)
    IN  IF before = {} THEN "None"
        ELSE KindOf(L[CHOOSE j \in before : \A m \in before : m <= j])

BulletsOf(L, bucket) ==
    LET idx == {i \in 1..Len(L) : KindOf(L[i]) = "bullet" /\ ActiveAt(L, i) = bucket}
        nth(k) == CHOOSE i \in idx : Cardinality({j \in idx : j <= i}) = k
    IN  [k \in 1..Cardinality(idx) |-> Strip(Tail(L[nth(k)]))]

C7_BulletBuckets ==
    bpc = "done"
        => LET L == ScanLines
           IN  /\ bimprove = BulletsOf(L, "to_improve")
               /\ bmaintain = BulletsOf(L, "to_maintain")

C7_Witness ==
    /\ bpc = "done"
    /\ Len(ScanLines) >= 3
    /\ KindOf(ScanLines[1]) = "bullet"
    /\ bimprove # <<>>
    /\ \E i \in 1..Len(ScanLines) : KindOf(ScanLines[i]) = "to_maintain"

\* C9: no two requests write their PDF to the same path: the file named by
\* the pdf_url a request returns, and the file at the path a request has
\* written its PDF to, is the file that this request wrote.
Wrote(r) == req[r].pc = "respond" \/ (req[r].pc = "done" /\ req[r].status = 200)

C9_OwnOutputPath ==
    /\ \A r \in DOMAIN req :
        Wrote(r) => [path |-> OutputPath(PdfFilename(req[r].pdf)), by |-> r] \in files
    /\ \A r \in DOMAIN req :
        (req[r].pc = "done" /\ req[r].status = 200)
            => [path |-> ServedPath(req[r].pdf_url), by |-> r] \in files
    /\ \A r1, r2 \in DOMAIN req :
        (r1 # r2 /\ Wrote(r1) /\ Wrote(r2))
            => OutputPath(PdfFilename(req[r1].pdf)) # OutputPath(PdfFilename(req[r2].pdf))

C9_Witness ==
    \E r1, r2 \in DOMAIN req :
        /\ r1 # r2
        /\ req[r1].pc = "done" /\ req[r1].status = 200
        /\ req[r2].pc = "done" /\ req[r2].status = 200

=============================================================================
